---- MODULE Spec2Model ----
(***************************************************************************)
(* Model of the weather proxy in src/src/app/app.py: the /weather/ request *)
(* handler (get_weather), the S3-backed TTL cache (get_cached_weather,     *)
(* upload_to_s3), the upstream client (fetch_weather) and the DynamoDB     *)
(* access log (log_to_dynamodb).  Each request is a process whose steps    *)
(* are the handler's awaits; the bucket, the table and the wall clock are  *)
(* shared.                                                                 *)
(***************************************************************************)
EXTENDS Integers, Sequences, FiniteSets, TLC

\* ------------------------------------------------------------------ bounds
\* Number of requests the model lets arrive.
NumReqs == 3
\* Number of times the wall clock advances.
MaxTicks == 1
\* Number of requests that arrive while another request is still being handled.
MaxOverlaps == 1

\* --------------------------------------------------------------- constants
CACHE_TTL_SECONDS == 300

\* settings.S3_BUCKET_NAME, an environment value; one fixed name here.
S3_BUCKET_NAME == <<"b">>

\* ------------------------------------------------------------ text helpers
\* Strings are sequences of one-character strings.
Digits == <<"0", "1", "2", "3", "4", "5", "6", "7", "8", "9">>

IsDigit(c) == \E i \in 1..10 : Digits[i] = c

DigitVal(c) == (CHOOSE i \in 1..10 : Digits[i] = c) - 1

\* str(n) of a non-negative int, as the f-string of line 168 formats it.
RECURSIVE IntToStr(_)
IntToStr(n) ==
    IF n < 10 THEN <<Digits[n + 1]>>
    ELSE IntToStr(n \div 10) \o <<Digits[(n % 10) + 1]>>

StartsWith(s, p) ==
    /\ Len(s) >= Len(p)
    /\ SubSeq(s, 1, Len(p)) = p

\* str.replace(old, ""): every non-overlapping occurrence, left to right.
RECURSIVE RemoveAll(_, _)
RemoveAll(s, old) ==
    IF Len(s) < Len(old) \/ Len(old) = 0 THEN s
    ELSE IF SubSeq(s, 1, Len(old)) = old
         THEN RemoveAll(SubSeq(s, Len(old) + 1, Len(s)), old)
         ELSE <<s[1]>> \o RemoveAll(Tail(s), old)

\* str.strip() for the blank character.
RECURSIVE StripLeft(_)
StripLeft(s) == IF s # <<>> /\ s[1] = " " THEN StripLeft(Tail(s)) ELSE s

RECURSIVE StripRight(_)
StripRight(s) ==
    IF s # <<>> /\ s[Len(s)] = " " THEN StripRight(SubSeq(s, 1, Len(s) - 1)) ELSE s

\* The digit part of an int() literal: digits, single underscores allowed
\* between two digits only.
DigitsOk(s) ==
    /\ s # <<>>
    /\ IsDigit(s[1])
    /\ IsDigit(s[Len(s)])
    /\ \A i \in 1..Len(s) : IsDigit(s[i]) \/ s[i] = "_"
    /\ \A i \in 1..(Len(s) - 1) : ~(s[i] = "_" /\ s[i + 1] = "_")

RECURSIVE DigitsValue(_, _)
DigitsValue(s, acc) ==
    IF s = <<>> THEN acc
    ELSE IF s[1] = "_" THEN DigitsValue(Tail(s), acc)
         ELSE DigitsValue(Tail(s), acc * 10 + DigitVal(s[1]))

\* Python's int(str): blanks stripped, an optional sign, then the digit part.
\* ok = FALSE stands for ValueError.
ParseInt(str) ==
    LET s == StripRight(StripLeft(str))
        signed == s # <<>> /\ s[1] \in {"+", "-"}
        body == IF signed THEN Tail(s) ELSE s
    IN  IF ~DigitsOk(body) THEN [ok |-> FALSE, val |-> 0]
        ELSE [ok |-> TRUE,
              val |-> IF signed /\ s[1] = "-" THEN 0 - DigitsValue(body, 0)
                      ELSE DigitsValue(body, 0)]

JsonSuffix == <<".", "j", "s", "o", "n">>

\* prefix = f"{city}_"  (line 71)
Prefix(c) == c \o <<"_">>

\* A fixed key per city, cache/{city}.json style (the alternative of line 60).
FilenameNoStamp(c, t) == c \o JsonSuffix

\* filename = f"{city}_{timestamp}.json"  (line 168)
Filename(c, t) == c \o <<"_">> \o IntToStr(t) \o JsonSuffix

\* f"s3://{settings.S3_BUCKET_NAME}/{filename}"  (line 125)
S3UriNoBucket(filename) == <<"s", "3", ":", "/", "/">> \o filename

S3Uri(filename) == <<"s", "3", ":", "/", "/">> \o S3_BUCKET_NAME \o <<"/">> \o filename

\* int(key.replace(prefix, "").replace(".json", ""))  (line 88)
KeyTimestamp(key, prefix) == ParseInt(RemoveAll(RemoveAll(key, prefix), JsonSuffix))


\* ------------------------------------------------------------ JSON bodies
\* A JSON object is the set of its <<path, value>> leaves; {} is the empty
\* object.  Temperatures are in tenths of a degree.
TempBody(t) == {<<"main.temp", t>>}
NoTempBody == {<<"cod", 200>>}
EmptyBody == {}

\* Bodies the upstream may send with status 200 (response.json(), line 52).
Bodies == {TempBody(152), NoTempBody, EmptyBody}

\* Status codes the upstream may answer with.
Statuses == {200, 204, 404}

\* Python truthiness of a decoded JSON object (line 159).
Truthy(d) == d # {}

\* d["main"]["temp"] is defined (no KeyError), lines 162 and 177.
HasTemp(d) == \E p \in d : p[1] = "main.temp"

TempOf(d) == (CHOOSE p \in d : p[1] = "main.temp")[2]

\* json.dumps(data) of line 115, as a token sequence.
JsonDumps(d) ==
    IF d = {} THEN <<"{", "}">>
    ELSE LET p == CHOOSE q \in d : TRUE
         IN  IF p[1] = "main.temp"
             THEN <<"{", "main", ":", "{", "temp", ":", p[2], "}", "}">>
             ELSE <<"{", p[1], ":", p[2], "}">>

\* json.loads(body) of line 106.
JsonLoads(s) ==
    IF Len(s) = 2 THEN {}
    ELSE IF Len(s) = 9 THEN {<<"main.temp", s[7]>>}
    ELSE {<<s[2], s[4]>>}

\* ------------------------------------------------------------------ state
\* A slot carries one request at a time and is reused once it has answered.
Reqs == 1..(MaxOverlaps + 1)

\* Values of the city query parameter; <<>> is the empty string.
CityValues == {<<>>, <<"A">>, <<"A", "_", "A">>}

\* Values of the wall clock when the first request arrives (the epoch and after).
StartTimes == {0, 1}

\* Amounts by which the wall clock advances between two observations.
TickSteps == {CACHE_TTL_SECONDS, CACHE_TTL_SECONDS + 1}

VARIABLES
    clock,          \* int(time.time())
    ticks,          \* how often the clock has advanced
    bucket,         \* S3 bucket: key -> stored bytes (a token sequence)
    table,          \* DynamoDB table: primary key -> item
    pc,             \* per request: the await it is suspended at
    city,           \* per request: the city parameter
    timestamp,      \* per request: local timestamp of get_weather
    latest_obj,     \* per request: local latest_obj of get_cached_weather
    latest_ts,      \* per request: local latest_ts of get_cached_weather
    weather_data,   \* per request: local weather_data of get_weather
    s3_uri,         \* per request: local s3_uri of get_weather
    response,       \* per request: the HTTP response sent
    upstream,       \* per request: status the upstream answered with (0: none)
    calls,          \* per request: collaborator operations invoked, counted
    wrote,          \* per request: what it wrote ("object", "record")
    known,          \* per request: the objects of its city stored, and those
                    \* of them left without a log record, when it arrived
    arrivals,       \* number of requests that have arrived
    overlaps,       \* number of them that arrived while another was in flight
    puts,           \* number of put_object calls that succeeded
    stored          \* the <<city, timestamp>> pairs an object was put for

vars == <<clock, ticks, bucket, table, pc, city, timestamp, latest_obj,
          latest_ts, weather_data, s3_uri, response, upstream, calls, wrote,
          known, arrivals, overlaps, puts, stored>>

NoResponse ==
    [status |-> 0, city |-> <<>>, temperature |-> 0, source |-> "none", detail |-> "none"]
\* The JSON answers of lines 160-164 and 175-179.
Ok(c, t, src) ==
    [status |-> 200, city |-> c, temperature |-> t, source |-> src, detail |-> "none"]
\* HTTPException(status_code=s, detail=d), and FastAPI's own 422 / 500 answers.
Error(s, d) ==
    [status |-> s, city |-> <<>>, temperature |-> 0, source |-> "error", detail |-> d]

\* The answer to a query that fails validation (line 153).
Unprocessable == Error(422, "validation error")
\* The answer when the handler raises anything but an HTTPException (the
\* KeyError of lines 162 and 177).
InternalServerError == Error(500, "Internal Server Error")
ListFailed == Error(500, "Failed to get cached weather data")
GetFailed == Error(500, "Failed to get cached weather data")
UploadFailed == Error(500, "Failed to upload weather data")
LogFailed == Error(500, "Failed to log transaction")
UpstreamFailed(status) == Error(status, "Weather service unavailable or city not found")

\* Query(..., min_length=1)  (line 153)
ValidCityLax(present, c) == present

ValidCity(present, c) == present /\ Len(c) >= 1

\* response.status_code != 200  (line 48)
RaisesOutside2xx(status) == status \notin 200..299

RaisesForStatusLax(status) == status >= 500

RaisesForStatus(status) == status # 200

NothingKnown == [entries |-> {}, unlogged |-> {}]

NoCalls == [list |-> 0, get |-> 0, fetch |-> 0, put |-> 0, log |-> 0]

Init ==
    /\ clock \in StartTimes
    /\ ticks = 0
    /\ bucket = <<>>
    /\ table = <<>>
    /\ pc = [r \in Reqs |-> "idle"]
    /\ city = [r \in Reqs |-> <<>>]
    /\ timestamp = [r \in Reqs |-> 0]
    /\ latest_obj = [r \in Reqs |-> <<>>]
    /\ latest_ts = [r \in Reqs |-> 0]
    /\ weather_data = [r \in Reqs |-> {}]
    /\ s3_uri = [r \in Reqs |-> <<>>]
    /\ response = [r \in Reqs |-> NoResponse]
    /\ upstream = [r \in Reqs |-> 0]
    /\ calls = [r \in Reqs |-> NoCalls]
    /\ wrote = [r \in Reqs |-> {}]
    /\ known = [r \in Reqs |-> NothingKnown]
    /\ arrivals = 0
    /\ overlaps = 0
    /\ puts = 0
    /\ stored = {}

\* dict update: d[k] = v
\* A write under an existing key leaves the first value in place.
PutIfAbsent(f, k, v) ==
    [x \in DOMAIN f \cup {k} |-> IF x \in DOMAIN f THEN f[x] ELSE v]

\* A write replaces whatever was held before.
PutOnly(f, k, v) == [x \in {k} |-> v]

Put(f, k, v) == [x \in DOMAIN f \cup {k} |-> IF x = k THEN v ELSE f[x]]

\* The primary key of an item of the table: city is the partition key and
\* timestamp the sort key.
ItemKey(item) == <<item.city, item.timestamp>>

Count(r, op) == calls' = [calls EXCEPT ![r][op] = @ + 1]

\* A failed upload is tried a second time instead of ending the request.
FinishRetry(r, resp) ==
    IF resp = UploadFailed /\ calls[r].put = 0
    THEN UNCHANGED <<pc, response>>
    ELSE /\ pc' = [pc EXCEPT ![r] = "done"]
         /\ response' = [response EXCEPT ![r] = resp]

\* The request ends with response resp.
Finish(r, resp) ==
    /\ pc' = [pc EXCEPT ![r] = "done"]
    /\ response' = [response EXCEPT ![r] = resp]

\* ---------------------------------------------------------- cache lookup
\* The keys list_objects_v2 returns for a prefix (lines 74-77).
Listed(prefix) == {k \in DOMAIN bucket : StartsWith(k, prefix)}

\* The orders in which a listing may enumerate a set of keys.
Orders(S) ==
    {f \in [1..Cardinality(S) -> S] : \A k \in S : \E i \in DOMAIN f : f[i] = k}

\* One iteration of the loop of lines 85-93 on the pair (latest_obj, latest_ts).
ScanStep(acc, key, prefix) ==
    LET ts == KeyTimestamp(key, prefix)
    IN  IF ts.ok /\ ts.val > acc.ts THEN [obj |-> key, ts |-> ts.val] ELSE acc

\* The loop of lines 82-93 over the first n keys of the listing.
RECURSIVE Scan(_, _, _)
Scan(contents, n, prefix) ==
    IF n = 0 THEN [obj |-> <<>>, ts |-> 0]
    ELSE ScanStep(Scan(contents, n - 1, prefix), contents[n], prefix)

\* now_ts - latest_ts > CACHE_TTL_SECONDS  (line 98)
Expired(now_ts, ts) == now_ts - ts > CACHE_TTL_SECONDS

\* ----------------------------------------------------------------- actions
\* The stored objects whose log_to_dynamodb call has failed: no record, and
\* no writer about to put one.
Unlogged ==
    {p \in stored : /\ p \notin DOMAIN table
                    /\ ~\E q \in Reqs : pc[q] = "log" /\ <<city[q], timestamp[q]>> = p}

InFlight == {q \in Reqs : pc[q] \notin {"idle", "done"}}


\* Slot r takes a new request; the slots whose request has answered are freed.
Take(f, r, new, free) ==
    [q \in Reqs |-> IF q = r THEN new ELSE IF pc[q] = "done" THEN free ELSE f[q]]

\* A request arrives; FastAPI validates the query (line 153) and get_weather
\* reads the clock (line 154).  present = FALSE: no city parameter at all.
Arrive(r, present, c) ==
    /\ pc[r] \in {"idle", "done"}
    /\ \A q \in 1..(r - 1) : pc[q] \notin {"idle", "done"}   \* the first free slot
    /\ arrivals < NumReqs
    /\ arrivals' = arrivals + 1
    /\ IF InFlight = {}
       THEN UNCHANGED overlaps
       ELSE overlaps < MaxOverlaps /\ overlaps' = overlaps + 1
    /\ latest_obj' = Take(latest_obj, r, <<>>, <<>>)
    /\ latest_ts' = Take(latest_ts, r, 0, 0)
    /\ weather_data' = Take(weather_data, r, {}, {})
    /\ s3_uri' = Take(s3_uri, r, <<>>, <<>>)
    /\ upstream' = Take(upstream, r, 0, 0)
    /\ calls' = Take(calls, r, NoCalls, NoCalls)
    /\ wrote' = Take(wrote, r, {}, {})
    /\ known' = Take(known, r,
                     IF ValidCity(present, c)
                     THEN [entries |-> {p \in stored : p[1] = c},
                           unlogged |-> {p \in Unlogged : p[1] = c}]
                     ELSE NothingKnown,
                     NothingKnown)
    /\ IF ValidCity(present, c)
       THEN /\ city' = Take(city, r, c, <<>>)
            /\ timestamp' = Take(timestamp, r, clock, 0)
            /\ pc' = Take(pc, r, "lookup", "idle")
            /\ response' = Take(response, r, NoResponse, NoResponse)
       ELSE /\ city' = Take(city, r, <<>>, <<>>)
            /\ timestamp' = Take(timestamp, r, 0, 0)
            /\ pc' = Take(pc, r, "done", "idle")
            /\ response' = Take(response, r, Unprocessable, NoResponse)
    /\ UNCHANGED <<clock, ticks, bucket, table, puts, stored>>

\* get_cached_weather up to its return or its get_object await (lines 70-99):
\* the listing, the scan and the freshness test.
ListObjects(r) ==
    /\ pc[r] = "lookup"
    /\ Count(r, "list")
    /\ \/ \* ClientError (lines 107-109)
          /\ Finish(r, ListFailed)
          /\ UNCHANGED <<latest_obj, latest_ts>>
       \/ \E contents \in Orders(Listed(Prefix(city[r]))) :
            LET found == Scan(contents, Len(contents), Prefix(city[r]))
            IN  /\ latest_obj' = [latest_obj EXCEPT ![r] = found.obj]
                /\ latest_ts' = [latest_ts EXCEPT ![r] = found.ts]
                /\ IF contents = <<>> \/ found.obj = <<>>
                      \/ Expired(timestamp[r], found.ts)
                   THEN pc' = [pc EXCEPT ![r] = "fetch"]
                   ELSE pc' = [pc EXCEPT ![r] = "get"]
                /\ UNCHANGED response
    /\ UNCHANGED <<clock, ticks, bucket, table, city, timestamp, weather_data,
                   s3_uri, upstream, wrote, known, arrivals, overlaps, puts,
                   stored>>

\* get_object and json.loads (lines 101-106), then lines 159-164 of the handler.
GetObject(r) ==
    /\ pc[r] = "get"
    /\ Count(r, "get")
    /\ \/ LET cached_weather == JsonLoads(bucket[latest_obj[r]])
          IN  IF Truthy(cached_weather)
              THEN IF HasTemp(cached_weather)
                   THEN Finish(r, Ok(city[r], TempOf(cached_weather), "cache"))
                   ELSE Finish(r, InternalServerError)   \* KeyError at line 162
              ELSE /\ pc' = [pc EXCEPT ![r] = "fetch"]
                   /\ UNCHANGED response
       \/ \* ClientError (lines 107-109)
          Finish(r, GetFailed)
    /\ UNCHANGED <<clock, ticks, bucket, table, city, timestamp, latest_obj,
                   latest_ts, weather_data, s3_uri, upstream, wrote, known,
                   arrivals, overlaps, puts, stored>>

\* fetch_weather (lines 39-52).
FetchWeather(r) ==
    /\ pc[r] = "fetch"
    /\ Count(r, "fetch")
    /\ \/ \E status \in Statuses, body \in Bodies :
            /\ upstream' = [upstream EXCEPT ![r] = status]
            /\ IF RaisesForStatus(status)
               THEN /\ Finish(r, UpstreamFailed(status))
                    /\ UNCHANGED weather_data
               ELSE /\ weather_data' = [weather_data EXCEPT ![r] = body]
                    /\ pc' = [pc EXCEPT ![r] = "put"]
                    /\ UNCHANGED response
       \/ \* client.get raises (no answer at all, line 46), or response.json()
          \* raises on a body that is not JSON (line 52): neither is caught.
          \E status \in {0, 200} :
            /\ upstream' = [upstream EXCEPT ![r] = status]
            /\ Finish(r, InternalServerError)
            /\ UNCHANGED weather_data
    /\ UNCHANGED <<clock, ticks, bucket, table, city, timestamp, latest_obj,
                   latest_ts, s3_uri, wrote, known, arrivals, overlaps, puts,
                   stored>>

\* The ClientError of put_object is swallowed and the handler goes on to log.
UploadToS3Lenient(r) ==
    /\ pc[r] = "put"
    /\ Count(r, "put")
    /\ \/ LET filename == Filename(city[r], timestamp[r])
          IN  /\ bucket' = Put(bucket, filename, JsonDumps(weather_data[r]))
              /\ s3_uri' = [s3_uri EXCEPT ![r] = S3Uri(filename)]
              /\ wrote' = [wrote EXCEPT ![r] = @ \cup {"object"}]
              /\ puts' = puts + 1
              /\ stored' = stored \cup {<<city[r], timestamp[r]>>}
       \/ /\ s3_uri' = [s3_uri EXCEPT ![r] = S3Uri(Filename(city[r], timestamp[r]))]
          /\ UNCHANGED <<bucket, wrote, puts, stored>>
    /\ pc' = [pc EXCEPT ![r] = "log"]
    /\ UNCHANGED <<clock, ticks, table, city, timestamp, latest_obj, latest_ts,
                   weather_data, upstream, known, arrivals, overlaps, response>>

\* upload_to_s3 (lines 112-128) with the filename of line 168.
UploadToS3(r) ==
    /\ pc[r] = "put"
    /\ Count(r, "put")
    /\ \/ LET filename == Filename(city[r], timestamp[r])
          IN  /\ bucket' = Put(bucket, filename, JsonDumps(weather_data[r]))
              /\ s3_uri' = [s3_uri EXCEPT ![r] = S3Uri(filename)]
              /\ wrote' = [wrote EXCEPT ![r] = @ \cup {"object"}]
              /\ puts' = puts + 1
              /\ stored' = stored \cup {<<city[r], timestamp[r]>>}
              /\ pc' = [pc EXCEPT ![r] = "log"]
              /\ UNCHANGED response
       \/ \* ClientError (lines 126-128)
          /\ Finish(r, UploadFailed)
          /\ UNCHANGED <<bucket, s3_uri, wrote, puts, stored>>
    /\ UNCHANGED <<clock, ticks, table, city, timestamp, latest_obj, latest_ts,
                   weather_data, upstream, known, arrivals, overlaps>>

\* log_to_dynamodb (lines 131-149), then lines 175-179 of the handler.
LogToDynamodb(r) ==
    /\ pc[r] = "log"
    /\ Count(r, "log")
    /\ \/ /\ LET item == [city |-> city[r], timestamp |-> timestamp[r],
                           s3_uri |-> s3_uri[r], processed_at |-> clock]
             IN  table' = Put(table, ItemKey(item), item)
          /\ wrote' = [wrote EXCEPT ![r] = @ \cup {"record"}]
          /\ IF HasTemp(weather_data[r])
             THEN Finish(r, Ok(city[r], TempOf(weather_data[r]), "api"))
             ELSE Finish(r, InternalServerError)   \* KeyError at line 177
       \/ \* ClientError (lines 145-149)
          /\ Finish(r, LogFailed)
          /\ UNCHANGED <<table, wrote>>
    /\ UNCHANGED <<clock, ticks, bucket, city, timestamp, latest_obj, latest_ts,
                   weather_data, s3_uri, upstream, known, arrivals, overlaps, puts,
                   stored>>

\* Time passes.
Tick(d) ==
    /\ ticks < MaxTicks
    /\ clock' = clock + d
    /\ ticks' = ticks + 1
    /\ UNCHANGED <<bucket, table, pc, city, timestamp, latest_obj, latest_ts,
                   weather_data, s3_uri, response, upstream, calls, wrote, known, arrivals,
                   overlaps, puts, stored>>

Next ==
    \/ \E r \in Reqs, present \in BOOLEAN, c \in CityValues : Arrive(r, present, c)
    \/ \E r \in Reqs : ListObjects(r)
    \/ \E r \in Reqs : GetObject(r)
    \/ \E r \in Reqs : FetchWeather(r)
    \/ \E r \in Reqs : UploadToS3(r)
    \/ \E r \in Reqs : LogToDynamodb(r)
    \/ \E d \in TickSteps : Tick(d)

Spec == Init /\ [][Next]_vars

\* A request suspended at an await is resumed once the awaited call answers.
Resume(r) ==
    \/ ListObjects(r)
    \/ GetObject(r)
    \/ FetchWeather(r)
    \/ UploadToS3(r)
    \/ LogToDynamodb(r)

\* Every collaborator call answers and the event loop resumes its request.
FairSpec == Spec /\ \A r \in Reqs : WF_vars(Resume(r))

\* ------------------------------------------------------- claim vocabulary
\* The objects stored for city c, as <<city, timestamp>> pairs.
EntriesOf(c) == {p \in stored : p[1] = c}

\* p is the entry of its city with the largest timestamp.
Newest(p) == \A q \in EntriesOf(p[1]) : q[2] <= p[2]

KeyOf(p) == Filename(p[1], p[2])

\* key is city c, an underscore, decimal digits and ".json", nothing else.
ExactForm(key, c) ==
    /\ Len(key) >= Len(c) + 7
    /\ SubSeq(key, 1, Len(c) + 1) = Prefix(c)
    /\ SubSeq(key, Len(key) - 4, Len(key)) = JsonSuffix
    /\ \A i \in (Len(c) + 2)..(Len(key) - 5) : IsDigit(key[i])

\* Request r's listing has answered in this step (no ClientError).
ListReturned(r) == pc[r] = "lookup" /\ pc'[r] \in {"get", "fetch"}

\* Request r's get_object has answered in this step (no ClientError).
GetReturned(r) == pc[r] = "get" /\ pc'[r] # "get" /\ response'[r] # GetFailed

\* Request r is answered from the cache with the temperature stored under key.
ServedFromCache(r, key) ==
    /\ pc'[r] = "done"
    /\ HasTemp(JsonLoads(bucket[key]))
    /\ response'[r] = Ok(city[r], TempOf(JsonLoads(bucket[key])), "cache")

\* C1: an entry stored for a city at t1, with no newer entry of the city, is
\* what a lookup at t2 returns when t1 < t2 and t2 - t1 <= 300, and the
\* request of that lookup answers with source = cache.
C1_FreshEntryIsServed ==
    [][\A r \in Reqs : \A p \in EntriesOf(city[r]) :
          (Newest(p) /\ p[2] < timestamp[r]
                     /\ timestamp[r] - p[2] <= CACHE_TTL_SECONDS)
          => /\ ListReturned(r) => pc'[r] = "get" /\ latest_obj'[r] = KeyOf(p)
             /\ GetReturned(r) => ServedFromCache(r, KeyOf(p))]_vars

\* C2: when the newest entry of a city is older than 300 seconds at the read
\* time, the lookup returns nothing and leaves the object store as it was.
C2_ExpiredEntryIsAMiss ==
    [][\A r \in Reqs : \A p \in EntriesOf(city[r]) :
          (ListReturned(r) /\ Newest(p)
                           /\ timestamp[r] - p[2] > CACHE_TTL_SECONDS)
          => pc'[r] = "fetch" /\ bucket' = bucket]_vars

\* C3: whatever the entries of a city and the listing order, the lookup
\* selects the entry with the maximum timestamp and decides freshness on it.
C3_LookupSelectsNewest ==
    [][\A r \in Reqs : \A p \in EntriesOf(city[r]) :
          (ListReturned(r) /\ Newest(p))
          => /\ latest_obj'[r] = KeyOf(p)
             /\ pc'[r] = "get" <=> ~Expired(timestamp[r], p[2])]_vars

\* C4: a listed key that is not exactly {city}_<digits>.json is ignored: the
\* lookup decides as it would on the listing without those keys.
C4_ForeignKeysIgnored ==
    [][\A r \in Reqs :
          ListReturned(r)
          => \E contents \in Orders({k \in Listed(Prefix(city[r])) :
                                        ExactForm(k, city[r])}) :
               LET found == Scan(contents, Len(contents), Prefix(city[r]))
               IN  /\ latest_obj'[r] = found.obj
                   /\ latest_ts'[r] = found.ts]_vars

\* C5: a request whose lookup finds a fresh entry of its city answers with
\* that entry's temperature and source = cache, calls the upstream never and
\* writes neither an object nor a log record.
C5_CacheHitHasNoSideEffects ==
    \A r \in Reqs :
        (/\ calls[r].get = 1
         /\ pc[r] # "get"
         /\ response[r] # GetFailed
         /\ ExactForm(latest_obj[r], city[r]))
        => /\ pc[r] = "done"
           /\ response[r].status = 200
           /\ response[r].source = "cache"
           /\ calls[r].fetch = 0
           /\ wrote[r] = {}

\* C6: a request that missed the cache and whose fetch, store and log all
\* succeeded wrote one object under {city}_{now}.json and one record keyed
\* (city, now) with that object's URI, and answers with the upstream
\* temperature and source = api.
C6_MissStoresLogsAndAnswers ==
    \A r \in Reqs :
        wrote[r] = {"object", "record"}
        => /\ pc[r] = "done"
           /\ calls[r].put = 1
           /\ calls[r].log = 1
           /\ Filename(city[r], timestamp[r]) \in DOMAIN bucket
           /\ <<city[r], timestamp[r]>> \in DOMAIN table
           /\ table[<<city[r], timestamp[r]>>].s3_uri
                  = S3Uri(Filename(city[r], timestamp[r]))
           /\ HasTemp(weather_data[r])
           /\ response[r] = Ok(city[r], TempOf(weather_data[r]), "api")

\* C7: when the upstream answers with a failing status s, the request ends
\* with an error response of status s and writes neither object nor record.
C7_UpstreamErrorPassesThrough ==
    \A r \in Reqs :
        /\ (upstream[r] # 0 /\ upstream[r] \notin 200..299)
           => /\ pc[r] = "done"
              /\ response[r] = UpstreamFailed(upstream[r])
        /\ response[r].detail = UpstreamFailed(0).detail
           => /\ pc[r] = "done"
              /\ response[r].status = upstream[r]
              /\ calls[r].put = 0
              /\ calls[r].log = 0
              /\ wrote[r] = {}

C7_Witness ==
    \E r \in Reqs : pc[r] = "done" /\ upstream[r] = 404 /\ response[r].status = 404

\* C8: a request without a city, or with the empty city, is answered 422 and
\* invokes no collaborator; every request that invokes one has a city.
C8_EmptyCityRejected ==
    \A r \in Reqs :
        /\ (pc[r] # "idle" /\ city[r] = <<>>)
           => /\ pc[r] = "done"
              /\ response[r] = Unprocessable
              /\ response[r].status \in 400..499
              /\ calls[r] = NoCalls
              /\ wrote[r] = {}
        /\ calls[r] # NoCalls => Len(city[r]) >= 1

C8_Witness ==
    \E r \in Reqs : pc[r] = "done" /\ response[r].status = 422 /\ arrivals >= 1

\* Request r's log_to_dynamodb call has failed in this step.
LogFailedNow(r) == pc[r] = "log" /\ pc'[r] = "done" /\ "record" \notin wrote'[r]

\* C9: when the log put fails after fetch and store succeeded, the request
\* ends with status 500, its object stays in the bucket, and a request for the
\* same city that arrives later, within the TTL, is served that object.
C9_LogFailureLeavesServableObject ==
    [][\A r \in Reqs :
          /\ LogFailedNow(r)
             => /\ response'[r].status = 500
                /\ bucket' = bucket
                /\ Filename(city[r], timestamp[r]) \in DOMAIN bucket'
          /\ \A p \in known[r].unlogged :
                (Newest(p) /\ p[2] <= timestamp[r]
                           /\ timestamp[r] - p[2] <= CACHE_TTL_SECONDS)
                => /\ ListReturned(r)
                      => pc'[r] = "get" /\ latest_obj'[r] = KeyOf(p)
                   /\ GetReturned(r) => ServedFromCache(r, KeyOf(p))]_vars

\* C10 as stated: the writes of two cache-missing requests never fall on the
\* same object, so the bucket holds one object per completed put.
C10_OneObjectPerMiss == Cardinality(DOMAIN bucket) = puts

\* C10, amended: the object and the record a request writes are named by its
\* (city, now) pair, and two different pairs never name the same object or
\* record; the bucket holds one object per pair a put completed for.
C10_OneObjectPerCityAndSecond ==
    /\ DOMAIN bucket = {KeyOf(p) : p \in stored}
    /\ Cardinality(DOMAIN bucket) = Cardinality(stored)
    /\ \A k \in DOMAIN table :
          /\ k \in stored
          /\ table[k].s3_uri = S3Uri(KeyOf(k))
    /\ puts >= Cardinality(stored)

\* Two requests of one city and second have both put, and a request of
\* another second has put as well.
C10_Witness ==
    /\ puts > Cardinality(stored)
    /\ \E p, q \in stored : p[1] = q[1] /\ p[2] # q[2]

Active == {"lookup", "get", "fetch", "put", "log"}

\* C11: every request that has started reaches its one answer, a result or
\* an error, and invokes no collaborator operation more than once.
C11_AnswersOnceWithoutRetry ==
    /\ [](\A r \in Reqs :
            /\ \A op \in DOMAIN NoCalls : calls[r][op] <= 1
            /\ pc[r] = "done" <=> response[r] # NoResponse
            /\ pc[r] = "done" => \/ response[r].status = 200
                                 \/ response[r].source = "error")
    /\ \A r \in Reqs : (pc[r] \in Active) ~> (pc[r] = "done")

\* A request that missed, fetched, stored and logged, each once.
C11_Witness ==
    \E r \in Reqs :
        /\ pc[r] = "done"
        /\ calls[r] = [list |-> 1, get |-> 0, fetch |-> 1, put |-> 1, log |-> 1]

\* The object-store call the request made last, before it ended, has failed.
ListOrGetFailed(r) ==
    /\ pc[r] = "done"
    /\ calls[r].list = 1
    /\ calls[r].fetch = 0
    /\ response[r].source # "cache"
    /\ response[r] # InternalServerError

PutFailed(r) == pc[r] \in {"log", "done"} /\ calls[r].put = 1 /\ "object" \notin wrote[r]

FetchRaised(r) ==
    /\ pc[r] = "done"
    /\ response[r].detail = "Weather service unavailable or city not found"

StartedUnderFreshStore(r) ==
    \E p \in known[r].entries : timestamp[r] - p[2] <= CACHE_TTL_SECONDS

\* C14: a request that starts after a store for its city has completed, with
\* now - t <= 300, makes no upstream fetch and, unless the object store fails
\* it, is answered from the cache.
C14_FreshStoreShieldsUpstream ==
    \A r \in Reqs :
        StartedUnderFreshStore(r) =>
            /\ calls[r].fetch = 0
            /\ pc[r] = "done" /\ ~ListOrGetFailed(r) => response[r].source = "cache"

\* Request r's put_object has answered in this step (no ClientError).
PutReturned(r) == pc[r] = "put" /\ pc'[r] = "log"

\* The text "s3://" + bucket + "/" + key.
UriOf(key) == <<"s", "3", ":", "/", "/">> \o S3_BUCKET_NAME \o <<"/">> \o key

\* C15: a completed store leaves, under the key {city}_{timestamp}.json, the
\* result it was given, whether or not the key was there before (a second
\* store with the same city and timestamp replaces the first result); every
\* other object is left as it was, so stores with different timestamps leave
\* distinct objects; and it returns s3://<bucket>/{city}_{timestamp}.json.
C15_StoreOverwritesSameKeyOnly ==
    [][\A r \in Reqs :
          PutReturned(r) =>
              LET key == city[r] \o <<"_">> \o IntToStr(timestamp[r]) \o JsonSuffix
              IN  /\ DOMAIN bucket' = DOMAIN bucket \cup {key}
                  /\ JsonLoads(bucket'[key]) = weather_data[r]
                  /\ \A k \in DOMAIN bucket \ {key} : bucket'[k] = bucket[k]
                  /\ s3_uri'[r] = UriOf(key)]_vars

\* Two stores with the same city and timestamp have completed, the second
\* with another result than the first, and the object holds the second one;
\* an object with another timestamp is there as well.
C15_Witness ==
    \E r, q \in Reqs :
        /\ r # q
        /\ pc[r] = "log" /\ pc[q] = "log"
        /\ city[r] = city[q] /\ timestamp[r] = timestamp[q]
        /\ weather_data[r] # weather_data[q]
        /\ JsonLoads(bucket[Filename(city[q], timestamp[q])]) = weather_data[q]
        /\ \E p \in stored : p[1] = city[q] /\ p[2] # timestamp[q]

\* C16: no step removes an object; the set of keys of the object store only
\* grows.
C16_KeysOnlyGrow == [][DOMAIN bucket \subseteq DOMAIN bucket']_vars

\* Two objects are held, the later one written while the first was there.
C16_Witness == Cardinality(DOMAIN bucket) >= 2 /\ puts >= 2

\* C17: every access-log record (city, timestamp, uri) has its object in the
\* store under {city}_{timestamp}.json, its uri is that object's, and the
\* request that wrote a record had stored its object before.
C17_RecordsPointAtObjects ==
    /\ \A k \in DOMAIN table :
          LET key == table[k].city \o <<"_">> \o IntToStr(table[k].timestamp)
                     \o JsonSuffix
          IN  /\ key \in DOMAIN bucket
              /\ table[k].s3_uri = UriOf(key)
    /\ \A r \in Reqs : "record" \in wrote[r] => "object" \in wrote[r]

\* A request has stored its object and written its record.
C17_Witness ==
    \E r \in Reqs :
        /\ wrote[r] = {"object", "record"}
        /\ <<city[r], timestamp[r]>> \in DOMAIN table
        /\ table[<<city[r], timestamp[r]>>].s3_uri = s3_uri[r]

\* The keys of the objects stored for city c.
OwnKeys(c) == {KeyOf(p) : p \in EntriesOf(c)}

\* C18: a lookup for a city selects only an object stored for that city, and
\* the objects of other cities do not change its outcome: it selects, and
\* hits or misses, as it would with the city's own objects alone in the store.
C18_LookupStaysInsideItsCity ==
    [][\A r \in Reqs :
          ListReturned(r) =>
              /\ latest_obj'[r] # <<>> => latest_obj'[r] \in OwnKeys(city[r])
              /\ \E own \in Orders(OwnKeys(city[r])) :
                    LET alone == Scan(own, Len(own), Prefix(city[r]))
                    IN  /\ latest_obj'[r] = alone.obj
                        /\ pc'[r] = "get" <=>
                              /\ alone.obj # <<>>
                              /\ ~Expired(timestamp[r], alone.ts)]_vars

\* C19: every stored object holds main.temp, and no request whose upstream
\* body lacks main.temp (an empty body included) has stored an object or
\* written a record.
C19_OnlyServableBodiesPersisted ==
    /\ \A k \in DOMAIN bucket : HasTemp(JsonLoads(bucket[k]))
    /\ \A r \in Reqs :
          pc[r] \in {"put", "log", "done"} /\ upstream[r] = 200
          /\ ~HasTemp(weather_data[r]) => wrote[r] = {}
====
